---- MODULE Spec2Model ----
(***************************************************************************)
(* SecureExamEnvironment (the proctoring monitor) composed with its        *)
(* housing page ExamEnv.                                                   *)
(* The MoreVerticalIcon cell renderer and its module-level pointer to the  *)
(* open instance are a second, independent machine (ModalSpec).            *)
(* The initialization run of ExamEnv (ExamEnvSpec) and the exam page       *)
(* OngoingExam (OngoingSpec) are machines of their own; NoApiSpec adds the *)
(* browser without a fullscreen entry point, ReentrySpec a second visit.   *)
(*                                                                         *)
(* The hook state of the component is held in one variable per useState.   *)
(* A setter applies at once while the component is mounted and is a no-op  *)
(* after unmount.  `rendered` is the snapshot of the hook state taken at   *)
(* the last React commit: it is what the closures of that render see and   *)
(* what decides which screen and which buttons exist.  Effects (listener   *)
(* attachment, heartbeat) run at Commit, their cleanups at Unmount.        *)
(* A handler body runs to completion in one action; every suspension point *)
(* (await of a browser promise, the 1s timers) separates two actions.      *)
(***************************************************************************)
EXTENDS Integers, Sequences, FiniteSets, TLC

\* ---- bounds of the model
MaxReports == 2        \* violation-report callback invocations explored
MaxProbes == 1         \* heartbeat probes in flight at once
MaxIcons == 3          \* MoreVerticalIcon cells in the grid
NumQuestions == 2      \* questions of the attempt (OngoingExam pages)
MaxSubmissions == 2    \* confirmed handleSubmission runs explored
\* ---- program constants
LowBatteryPercent == 20
\* ---- input domains
Levels == {10, 15, 20, 30}             \* battery.level * 100
KeyNames == {"F12", "I", "U", "u", "Tab", "a"}     \* KeyboardEvent.key
Options == {"A", "B"}                  \* question.options
NULL == "null"
Icons == 1..MaxIcons                   \* MoreVerticalIcon instances
NoModal == 0                           \* currentOpenModal = null
CameraStreamId == "camera-stream"
ScreenStreamId == "screen-stream"

VARIABLES
    \* SecureExamEnvironment hook state
    currentStep, isSecureMode, cameraStream, screenStream, violations,
    systemChecks, examStartTime, isLoading, agreementAccepted,
    \* refs
    heartbeatRef,
    \* srcObject of the <video ref={cameraRef}> element
    srcObject,
    \* React bookkeeping
    mounted, rendered, setupClosure, pc,
    \* browser
    liveTracks, fullscreenElement, heartbeatInterval, listeners,
    batteryPromise, probes, onLine, battery, hasBattery,
    \* ExamEnv (housing page)
    showSecureEnvironment, exitSignals, reports,
    \* history of the last handler
    terminations, releases, calls,
    \* an earlier instance of the component failed its setup and was torn down
    remounted,
    \* MoreVerticalIcon: the open flag of each instance, the module-level pointer
    open, currentOpenModal,
    \* ExamEnv: its hook state other than showSecureEnvironment, the position
    \* of its asynchronous run, and the browser and route it runs in
    examEnv,
    \* OngoingExam: its hook state, the answers stored at the server, its
    \* pending asynchronous runs and the calls it has made
    ongoing

monitorVars == <<currentStep, isSecureMode, cameraStream, screenStream, violations,
          systemChecks, examStartTime, isLoading, agreementAccepted,
          heartbeatRef, srcObject, mounted, rendered, setupClosure, pc,
          liveTracks, fullscreenElement, heartbeatInterval, listeners,
          batteryPromise, probes, onLine, battery, hasBattery,
          showSecureEnvironment, exitSignals, reports,
          terminations, releases, calls, remounted>>

modalVars == <<open, currentOpenModal>>

vars == <<monitorVars, modalVars, examEnv, ongoing>>

\* The whole state as one record, so that a handler is a composition of
\* functions applied in the order of its statements.
Cur ==
    [currentStep |-> currentStep, isSecureMode |-> isSecureMode,
     cameraStream |-> cameraStream, screenStream |-> screenStream,
     violations |-> violations, systemChecks |-> systemChecks,
     examStartTime |-> examStartTime, isLoading |-> isLoading,
     agreementAccepted |-> agreementAccepted, heartbeatRef |-> heartbeatRef,
     srcObject |-> srcObject,
     mounted |-> mounted, rendered |-> rendered, setupClosure |-> setupClosure,
     pc |-> pc, liveTracks |-> liveTracks, fullscreenElement |-> fullscreenElement,
     heartbeatInterval |-> heartbeatInterval, listeners |-> listeners,
     batteryPromise |-> batteryPromise, probes |-> probes, onLine |-> onLine,
     battery |-> battery, hasBattery |-> hasBattery,
     showSecureEnvironment |-> showSecureEnvironment, exitSignals |-> exitSignals,
     reports |-> reports, terminations |-> terminations, releases |-> releases,
     remounted |-> remounted, calls |-> <<>>]

Set(s) ==
    /\ currentStep' = s.currentStep
    /\ isSecureMode' = s.isSecureMode
    /\ cameraStream' = s.cameraStream
    /\ screenStream' = s.screenStream
    /\ violations' = s.violations
    /\ systemChecks' = s.systemChecks
    /\ examStartTime' = s.examStartTime
    /\ isLoading' = s.isLoading
    /\ agreementAccepted' = s.agreementAccepted
    /\ heartbeatRef' = s.heartbeatRef
    /\ srcObject' = s.srcObject
    /\ mounted' = s.mounted
    /\ rendered' = s.rendered
    /\ setupClosure' = s.setupClosure
    /\ pc' = s.pc
    /\ liveTracks' = s.liveTracks
    /\ fullscreenElement' = s.fullscreenElement
    /\ heartbeatInterval' = s.heartbeatInterval
    /\ listeners' = s.listeners
    /\ batteryPromise' = s.batteryPromise
    /\ probes' = s.probes
    /\ onLine' = s.onLine
    /\ battery' = s.battery
    /\ hasBattery' = s.hasBattery
    /\ showSecureEnvironment' = s.showSecureEnvironment
    /\ exitSignals' = s.exitSignals
    /\ reports' = s.reports
    /\ terminations' = s.terminations
    /\ releases' = s.releases
    /\ calls' = s.calls
    /\ remounted' = s.remounted
    /\ UNCHANGED <<modalVars, examEnv, ongoing>>

InitialChecks ==
    [camera |-> FALSE, microphone |-> FALSE, fullscreen |-> FALSE,
     networkStable |-> FALSE, batteryLevel |-> FALSE, noOtherApps |-> FALSE]

SnapshotWithBatteryGate(s) ==
    [currentStep |-> s.currentStep, isSecureMode |-> s.isSecureMode,
     cameraStream |-> s.cameraStream, screenStream |-> s.screenStream,
     isLoading |-> s.isLoading, agreementAccepted |-> s.agreementAccepted,
     camera |-> s.systemChecks.camera /\ s.systemChecks.batteryLevel,
     networkStable |-> s.systemChecks.networkStable]

\* What a render closes over.
Snapshot(s) ==
    [currentStep |-> s.currentStep, isSecureMode |-> s.isSecureMode,
     cameraStream |-> s.cameraStream, screenStream |-> s.screenStream,
     isLoading |-> s.isLoading, agreementAccepted |-> s.agreementAccepted,
     camera |-> s.systemChecks.camera,
     networkStable |-> s.systemChecks.networkStable]

\* The closure of the first render: addViolation is memoised on
\* [onSecurityViolation], the unmount effect on [], so both keep it.
FirstRender == [cameraStream |-> NULL, screenStream |-> NULL]

Call(s, c) == [s EXCEPT !.calls = Append(@, c)]

\* ---------------------------------------------------------------- ExamEnv

\* ExamEnv.handleExitSecure: hides the secure environment (the child is
\* unmounted by the next commit) and navigates away.
handleExitSecure(s) ==
    [Call(s, "handleExitSecure") EXCEPT !.showSecureEnvironment = FALSE,
                                        !.exitSignals = @ + 1]

\* ExamEnv.handleSecurityViolation, the onSecurityViolation prop: posts the
\* violation to the audit endpoint and, on critical, exits secure mode itself.
handleSecurityViolation(s, v) ==
    LET s1 == [Call(s, "onSecurityViolation") EXCEPT !.reports = Append(@, v)]
    IN  IF v.severity = "critical" THEN handleExitSecure(s1) ELSE s1

\* ------------------------------------------------- SecureExamEnvironment

setViolationsPrepends(s, v) ==
    IF s.mounted THEN [s EXCEPT !.violations = <<v>> \o @] ELSE s

\* useState setters: dropped once the component is unmounted.
setViolations(s, v) ==
    IF s.mounted THEN [s EXCEPT !.violations = Append(@, v)] ELSE s

setSystemChecks(s, field, value) ==
    IF s.mounted THEN [s EXCEPT !.systemChecks[field] = value] ELSE s

setIsSecureMode(s, value) ==
    IF s.mounted THEN [s EXCEPT !.isSecureMode = value] ELSE s

setCurrentStep(s, value) ==
    IF s.mounted THEN [s EXCEPT !.currentStep = value] ELSE s

setIsLoading(s, value) ==
    IF s.mounted THEN [s EXCEPT !.isLoading = value] ELSE s

setCameraStream(s, value) ==
    IF s.mounted THEN [s EXCEPT !.cameraStream = value] ELSE s

setScreenStream(s, value) ==
    IF s.mounted THEN [s EXCEPT !.screenStream = value] ELSE s

\* stream.getTracks().forEach(track => track.stop())
StopTracks(s, stream) ==
    [Call(s, "stop") EXCEPT !.liveTracks = @ \ {stream}]

cleanupSecureModeResetsStep(s, closure) ==
    LET s0 == [Call(s, "cleanupSecureMode") EXCEPT !.releases = @ + 1]
        s1 == IF closure.cameraStream # NULL
              THEN setCameraStream(StopTracks(s0, closure.cameraStream), NULL) ELSE s0
        s2 == IF closure.screenStream # NULL
              THEN setScreenStream(StopTracks(s1, closure.screenStream), NULL) ELSE s1
        s3 == IF s2.fullscreenElement
              THEN [Call(s2, "exitFullscreen") EXCEPT !.fullscreenElement = FALSE]
              ELSE s2
        s4 == IF s3.heartbeatRef
              THEN [Call(s3, "clearInterval") EXCEPT !.heartbeatInterval = FALSE]
              ELSE s3
    IN  setCurrentStep(setIsSecureMode(s4, FALSE), "agreement")

\* cleanupSecureMode as closed over by the render `closure`: the streams it
\* stops are that render's cameraStream/screenStream, while the fullscreen
\* element and the heartbeat ref are read live.
cleanupSecureMode(s, closure) ==
    LET s0 == [Call(s, "cleanupSecureMode") EXCEPT !.releases = @ + 1]
        s1 == IF closure.cameraStream # NULL
              THEN setCameraStream(StopTracks(s0, closure.cameraStream), NULL) ELSE s0
        s2 == IF closure.screenStream # NULL
              THEN setScreenStream(StopTracks(s1, closure.screenStream), NULL) ELSE s1
        s3 == IF s2.fullscreenElement
              THEN [Call(s2, "exitFullscreen") EXCEPT !.fullscreenElement = FALSE]
              ELSE s2
        s4 == IF s3.heartbeatRef
              THEN [Call(s3, "clearInterval") EXCEPT !.heartbeatInterval = FALSE]
              ELSE s3
    IN  setIsSecureMode(s4, FALSE)

\* handleSecurityTermination of the render `closure`; violationTimeoutRef is
\* never assigned, so there is no timer to clear.  onExitSecure is the
\* housing page's handleExitSecure.
handleSecurityTermination(s, closure) ==
    LET s1 == [Call(s, "handleSecurityTermination") EXCEPT !.terminations = @ + 1]
    IN  handleExitSecure(cleanupSecureMode(s1, closure))

Violation(type, severity) == [type |-> type, severity |-> severity]

addViolationNeverTerminates(s, type, severity) ==
    handleSecurityViolation(setViolations(s, Violation(type, severity)),
                            Violation(type, severity))

addViolationTerminatesFirst(s, type, severity) ==
    LET v == Violation(type, severity)
        s1 == IF severity = "critical"
              THEN handleSecurityTermination(s, FirstRender) ELSE s
    IN  handleSecurityViolation(setViolations(s1, v), v)

\* addViolation: append, report, then terminate when critical.  Memoised on
\* [onSecurityViolation], it calls the first render's handleSecurityTermination.
addViolation(s, type, severity) ==
    LET v == Violation(type, severity)
        s1 == Call(setViolations(s, v), "setViolations")
        s2 == handleSecurityViolation(s1, v)
    IN  IF severity = "critical"
        THEN handleSecurityTermination(s2, FirstRender)
        ELSE s2


\* ------------------------------------------------------ setup (async)

startSecureSetupUnguarded(s) ==
    LET s1 == setCurrentStep(setIsLoading(s, TRUE), "setup")
    IN  [Call(s1, "getUserMedia") EXCEPT
            !.setupClosure = [cameraStream |-> s.rendered.cameraStream,
                              screenStream |-> s.rendered.screenStream],
            !.pc = "camera"]

\* startSecureSetup up to its first await, as closed over by the render that
\* drew the button.
startSecureSetup(s) ==
    IF ~s.rendered.agreementAccepted THEN s
    ELSE LET s1 == setCurrentStep(setIsLoading(s, TRUE), "setup")
         IN  [Call(s1, "getUserMedia") EXCEPT
                 !.setupClosure = [cameraStream |-> s.rendered.cameraStream,
                                   screenStream |-> s.rendered.screenStream],
                 !.pc = "camera"]

setupFailedStaysInSetup(s) ==
    LET s1 == cleanupSecureMode(s, s.setupClosure)
    IN  [setIsLoading(Call(s1, "alert"), FALSE) EXCEPT !.pc = "idle"]

\* catch/finally of startSecureSetup: cleanupSecureMode is the clicked
\* render's.
setupFailed(s) ==
    LET s1 == cleanupSecureMode(s, s.setupClosure)
        s2 == setCurrentStep(Call(s1, "alert"), "agreement")
    IN  [setIsLoading(s2, FALSE) EXCEPT !.pc = "idle"]

setupCameraFailureContinues(s, granted) ==
    IF granted
    THEN LET s0 == setCameraStream(
                      [s EXCEPT !.liveTracks = @ \cup {CameraStreamId}],
                      CameraStreamId)
             s2 == setSystemChecks(setSystemChecks(s0, "camera", TRUE),
                                   "microphone", TRUE)
         IN  [s2 EXCEPT !.pc = "wait1"]
    ELSE [addViolation(s, "camera-denied", "critical") EXCEPT !.pc = "wait1"]

\* cameraRef.current: the <video> element exists only in the committed
\* verification render.
cameraRefCurrent(s) == s.mounted /\ s.rendered.currentStep = "verification"

\* setupCamera after getUserMedia settled: the stream is bound to the
\* preview only if the element exists at that moment.
setupCamera(s, granted) ==
    IF granted
    THEN LET s0 == setCameraStream(
                      [s EXCEPT !.liveTracks = @ \cup {CameraStreamId}],
                      CameraStreamId)
             s1 == IF cameraRefCurrent(s0)
                   THEN [Call(s0, "play") EXCEPT !.srcObject = CameraStreamId]
                   ELSE s0
             s2 == setSystemChecks(setSystemChecks(s1, "camera", TRUE),
                                   "microphone", TRUE)
         IN  [s2 EXCEPT !.pc = "wait1"]
    ELSE setupFailed(addViolation(s, "camera-denied", "critical"))

\* The fullscreen entry points of document.documentElement, in the order of
\* the if / else-if chain of enterFullscreen.
EntryPoints == <<"requestFullscreen", "webkitRequestFullscreen",
                 "msRequestFullscreen">>

\* the first entry point of the chain that the root element exposes
FirstEntryPoint(exposed) ==
    IF EntryPoints[1] \in exposed THEN EntryPoints[1]
    ELSE IF EntryPoints[2] \in exposed THEN EntryPoints[2]
    ELSE IF EntryPoints[3] \in exposed THEN EntryPoints[3]
    ELSE NULL

\* enterFullscreen up to its await, on a root element that exposes the entry
\* points `exposed`: the first one is invoked and awaited; when there is
\* none, no branch of the chain is taken and the function goes on to set the
\* check and return true.
enterFullscreenCall(s, exposed) ==
    IF FirstEntryPoint(exposed) # NULL
    THEN [Call(s, FirstEntryPoint(exposed)) EXCEPT !.pc = "fullscreen"]
    ELSE [setSystemChecks(s, "fullscreen", TRUE) EXCEPT !.pc = "wait2"]

enterFullscreenRejectionEscapes(s, granted) ==
    IF granted
    THEN [setSystemChecks([s EXCEPT !.fullscreenElement = TRUE],
                          "fullscreen", TRUE) EXCEPT !.pc = "wait2"]
    ELSE [s EXCEPT !.pc = "idle"]

\* enterFullscreen after requestFullscreen settled.
enterFullscreen(s, granted) ==
    IF granted
    THEN [setSystemChecks([s EXCEPT !.fullscreenElement = TRUE],
                          "fullscreen", TRUE) EXCEPT !.pc = "wait2"]
    ELSE setupFailed(addViolation(s, "fullscreen-denied", "critical"))

\* setupScreenShare after getDisplayMedia settled: it catches the rejection
\* itself and resolves to false, so the caller's .catch (which would add
\* screen-share-optional) never runs.
setupScreenShare(s, granted) ==
    IF granted
    THEN setScreenStream([s EXCEPT !.liveTracks = @ \cup {ScreenStreamId}],
                         ScreenStreamId)
    ELSE addViolation(s, "screen-denied", "critical")

\* Step 4 of startSecureSetup and its finally.
finalChecks(s) ==
    LET s1 == setSystemChecks(setSystemChecks(s, "networkStable", s.onLine),
                              "noOtherApps", TRUE)
        s2 == setCurrentStep(setIsSecureMode(s1, TRUE), "verification")
    IN  [setIsLoading(s2, FALSE) EXCEPT !.pc = "idle"]

\* ------------------------------------------------------ effects

DomEvents == {"fullscreenchange", "visibilitychange", "blur", "keydown",
              "contextmenu", "mouseleave"}
NetEvents == {"online", "offline"}
BatteryEvents == {"chargingchange", "levelchange"}

\* The cleanups returned by the monitoring and network effects.
effectCleanups(s) ==
    [s EXCEPT !.listeners = @ \ (DomEvents \cup NetEvents),
              !.heartbeatInterval = IF s.heartbeatRef THEN FALSE ELSE @]

\* The three effects keyed on [isSecureMode, addViolation]; the battery
\* effect returns no cleanup.
runEffects(s) ==
    IF ~s.isSecureMode THEN s
    ELSE [s EXCEPT !.listeners = @ \cup DomEvents \cup NetEvents,
                   !.heartbeatRef = TRUE,
                   !.heartbeatInterval = TRUE,
                   !.batteryPromise = IF s.hasBattery THEN TRUE ELSE @]

\* React commit of the pending state: effects whose dependency changed are
\* cleaned up and re-run.
commit(s) ==
    LET s1 == IF s.isSecureMode # s.rendered.isSecureMode
              THEN runEffects(IF s.rendered.isSecureMode
                              THEN effectCleanups(s) ELSE s)
              ELSE s
    IN  [s1 EXCEPT !.rendered = Snapshot(s1),
                   !.srcObject = IF s1.currentStep = "verification" THEN @ ELSE NULL]

\* Unmount: every effect cleanup runs, the last being the [] effect's
\* cleanupSecureMode of the first render.
unmount(s) ==
    LET s1 == [s EXCEPT !.mounted = FALSE, !.srcObject = NULL]
        s2 == IF s.rendered.isSecureMode THEN effectCleanups(s1) ELSE s1
    IN  cleanupSecureMode(s2, FirstRender)

\* End of a React event handler: the update is flushed synchronously.
flush(s) == IF s.showSecureEnvironment THEN commit(s) ELSE unmount(s)


\* ------------------------------------------------------ signal handlers

handleFullscreenChange(s) ==
    IF ~s.fullscreenElement
    THEN addViolation(s, "fullscreen-exit", "critical") ELSE s

handleVisibilityChange(s, hidden) ==
    IF hidden THEN addViolation(s, "tab-switch", "critical") ELSE s

handleBlurAsTabSwitch(s) == addViolation(s, "tab-switch", "critical")

handleBlur(s) == addViolation(s, "focus-loss", "warning")

blockedKeys == {"F11", "F12", "Escape", "PrintScreen", "Insert", "Delete",
                "Meta", "Alt+Tab", "Ctrl+Shift+I", "Ctrl+Shift+J", "Ctrl+U"}

Combo(e) ==
    (IF e.ctrlKey THEN "Ctrl+" ELSE "") \o (IF e.shiftKey THEN "Shift+" ELSE "")
        \o (IF e.altKey THEN "Alt+" ELSE "") \o e.key

\* the keydown events explored
KeyEvents == [key : KeyNames, ctrlKey : BOOLEAN, shiftKey : BOOLEAN,
              altKey : BOOLEAN]

handleKeyDownBareKeyOnly(s, e) ==
    IF e.key \in blockedKeys
    THEN addViolation(Call(s, "preventDefault"), "blocked-key", "warning")
    ELSE s

handleKeyDown(s, e) ==
    IF e.key \in blockedKeys \/ Combo(e) \in blockedKeys
    THEN addViolation(Call(s, "preventDefault"), "blocked-key", "warning")
    ELSE s

handleContextMenuOnlyFirst(s) ==
    IF s.violations = <<>>
    THEN addViolation(Call(s, "preventDefault"), "context-menu", "warning")
    ELSE Call(s, "preventDefault")

handleContextMenu(s) ==
    addViolation(Call(s, "preventDefault"), "context-menu", "warning")

handleMouseLeaveDropsNetwork(s) ==
    addViolation(setSystemChecks(s, "networkStable", FALSE), "mouse-leave", "warning")

handleMouseLeave(s) == addViolation(s, "mouse-leave", "warning")

handleOnline(s) == setSystemChecks(s, "networkStable", TRUE)

handleOfflineOnlyWarns(s) ==
    addViolation(setSystemChecks(s, "networkStable", FALSE),
                 "network-loss", "warning")

handleOffline(s) ==
    addViolation(setSystemChecks(s, "networkStable", FALSE),
                 "network-loss", "critical")

heartbeatFailedTerminates(s) == addViolation(s, "network-unstable", "critical")

\* .catch of the heartbeat fetch
heartbeatFailed(s) == addViolation(s, "network-unstable", "warning")

updateBatteryStatus(s) ==
    LET isCharging == s.battery.charging
        level == s.battery.level
        s1 == setSystemChecks(s, "batteryLevel",
                              isCharging \/ level > LowBatteryPercent)
    IN  IF ~isCharging /\ level < LowBatteryPercent
        THEN addViolation(s1, "battery-low", "warning") ELSE s1

\* startExam of the render `r`; onStartExam is ExamEnv.handleExamStart, or
\* is not passed at all by the later ExamEnv, in which case the call throws.
startExam(s, throws) ==
    LET s1 == setCurrentStep(setIsLoading(s, TRUE), "exam")
        s2 == IF s1.mounted THEN [s1 EXCEPT !.examStartTime = "set"] ELSE s1
        s3 == IF throws
              THEN handleSecurityTermination(
                       addViolation(s2, "exam-start-failed", "critical"),
                       [cameraStream |-> s.rendered.cameraStream,
                        screenStream |-> s.rendered.screenStream])
              ELSE Call(s2, "onStartExam")
    IN  setIsLoading(s3, FALSE)

\* ------------------------------------------------------ actions

CanReport == Len(reports) < MaxReports
Attached(ev) == ev \in listeners
Shows(step) == mounted /\ rendered.currentStep = step

\* OngoingExam after its initialization loaded the first question: nothing
\* answered, nothing pending, nothing submitted.
FirstQuestionLoaded ==
    [isLoading |-> FALSE, currentPage |-> 0, selectedAnswer |-> "",
     isSubmitting |-> FALSE, error |-> NULL, isInitialized |-> TRUE,
     currentQuestion |-> [loaded |-> TRUE, questionId |-> 0, givenAnswer |-> ""],
     hasNext |-> NumQuestions > 1,
     saved |-> [q \in 0..(NumQuestions - 1) |-> ""],
     pending |-> <<>>, submissions |-> 0, submissionRequests |-> 0,
     exitsScheduled |-> 0, exitCalls |-> 0, exited |-> FALSE]

\* The hook state of a SecureExamEnvironment that has run no handler yet, in
\* any browser; the grid with every modal closed; the exam page on its first
\* question.
Fresh ==
    /\ currentStep = "agreement"
    /\ isSecureMode = FALSE
    /\ cameraStream = NULL
    /\ screenStream = NULL
    /\ violations = <<>>
    /\ systemChecks = InitialChecks
    /\ examStartTime = NULL
    /\ isLoading = FALSE
    /\ agreementAccepted = FALSE
    /\ heartbeatRef = FALSE
    /\ srcObject = NULL
    /\ rendered = [currentStep |-> "agreement", isSecureMode |-> FALSE,
                   cameraStream |-> NULL, screenStream |-> NULL,
                   isLoading |-> FALSE, agreementAccepted |-> FALSE,
                   camera |-> FALSE, networkStable |-> FALSE]
    /\ setupClosure = FirstRender
    /\ pc = "idle"
    /\ liveTracks = {}
    /\ fullscreenElement = FALSE
    /\ heartbeatInterval = FALSE
    /\ listeners = {}
    /\ batteryPromise = FALSE
    /\ probes = 0
    /\ onLine \in BOOLEAN
    /\ hasBattery \in BOOLEAN
    /\ battery \in IF hasBattery THEN [charging : BOOLEAN, level : Levels]
                   ELSE {[charging |-> TRUE, level |-> 30]}
    /\ exitSignals = 0
    /\ reports = <<>>
    /\ terminations = 0
    /\ releases = 0
    /\ calls = <<>>
    /\ remounted = FALSE
    /\ open = [i \in Icons |-> FALSE]
    /\ currentOpenModal = NoModal
    /\ ongoing = FirstQuestionLoaded

\* The component is on screen: ExamEnv has finished an initialization in
\* which the fetch and every permission check succeeded.
Init ==
    /\ Fresh
    /\ mounted = TRUE
    /\ showSecureEnvironment = TRUE
    /\ examEnv = [testId |-> TRUE, mediaDevices |-> TRUE,
                  exposed |-> {EntryPoints[1]},
                  permissionsGranted |-> TRUE, isLoading |-> FALSE,
                  testData |-> TRUE, error |-> "",
                  initializationStep |-> "ready", pc |-> "done"]

\* the agreement checkbox
ToggleAgreement ==
    /\ Shows("agreement")
    /\ Set(flush([Cur EXCEPT !.agreementAccepted = ~rendered.agreementAccepted]))

\* "Cancel & Return to Dashboard": onClick={onExitSecure}
CancelAndReturn ==
    /\ Shows("agreement")
    /\ Set(flush(handleExitSecure(Cur)))

EnterSecureModeOnEveryScreen ==
    /\ mounted /\ rendered.agreementAccepted
    /\ Set(flush(startSecureSetup(Cur)))

\* "Enter Secure Mode": disabled={!agreementAccepted || isLoading}
EnterSecureMode ==
    /\ Shows("agreement")
    /\ ~(~rendered.agreementAccepted \/ rendered.isLoading)
    /\ Set(flush(startSecureSetup(Cur)))

CameraSettles ==
    /\ pc = "camera"
    /\ \E granted \in BOOLEAN :
          /\ granted \/ CanReport
          /\ Set(setupCamera(Cur, granted))

\* The root elements ExamEnv lets through: requestPermissions returns false,
\* and the component is never shown, unless requestFullscreenCapability()
\* finds at least one of the three entry points.
WithFullscreenApi == (SUBSET {EntryPoints[i] : i \in 1..3}) \ {{}}

\* the two one-second pauses of startSecureSetup: after the first
\* enterFullscreen is called, after the second setupScreenShare
SetupTimerFires ==
    \/ /\ pc = "wait1"
       /\ \E exposed \in WithFullscreenApi : Set(enterFullscreenCall(Cur, exposed))
    \/ /\ pc = "wait2"
       /\ Set([Cur EXCEPT !.pc = "screen"])

\* The first pause elapses on a root element that exposes none of the three
\* entry points: the component under a housing page that does not test the
\* capability first.  A step of NoApiSpec only.
SetupTimerFiresNoApi ==
    /\ pc = "wait1"
    /\ Set(enterFullscreenCall(Cur, {}))

FullscreenSettles ==
    /\ pc = "fullscreen"
    /\ \E granted \in BOOLEAN :
          /\ granted \/ CanReport
          /\ Set(enterFullscreen(Cur, granted))

ScreenShareSettles ==
    /\ pc = "screen"
    /\ \E granted \in BOOLEAN :
          /\ granted \/ CanReport
          /\ Set(finalChecks(setupScreenShare(Cur, granted)))

\* React renders the pending state of an asynchronous continuation or of a
\* native listener.
Commit ==
    /\ mounted /\ showSecureEnvironment
    /\ Snapshot(Cur) # rendered
    /\ Set(commit(Cur))

\* The housing page stopped rendering the component, or the route changed.
Unmount ==
    /\ mounted
    /\ Set(unmount(Cur))

StartExamNotGated ==
    /\ Shows("verification")
    /\ \E throws \in BOOLEAN :
          /\ ~throws \/ CanReport
          /\ Set(flush(startExam(Cur, throws)))

mountKeepsLogAndChecks(s) ==
    [s EXCEPT !.currentStep = "agreement", !.isSecureMode = FALSE,
              !.cameraStream = NULL, !.screenStream = NULL,
              !.examStartTime = NULL, !.isLoading = FALSE,
              !.agreementAccepted = FALSE, !.heartbeatRef = FALSE,
              !.srcObject = NULL, !.setupClosure = FirstRender,
              !.mounted = TRUE]

\* The hook state of a new instance: the useState/useRef initial values.
mount(s) ==
    [s EXCEPT !.currentStep = "agreement", !.isSecureMode = FALSE,
              !.cameraStream = NULL, !.screenStream = NULL,
              !.violations = <<>>, !.systemChecks = InitialChecks,
              !.examStartTime = NULL, !.isLoading = FALSE,
              !.agreementAccepted = FALSE, !.heartbeatRef = FALSE,
              !.srcObject = NULL, !.setupClosure = FirstRender,
              !.mounted = TRUE]

\* The candidate comes back to the exam route after a failed setup: a new
\* ExamEnv shows a new SecureExamEnvironment.  A step of ReentrySpec only
\* (Spec follows one component instance).  Followed once, and only when
\* the torn-down instance left nothing behind that could still call into it
\* (no pending continuation, probe or battery promise, no leaked listener or
\* track).
Remount ==
    /\ ~mounted /\ ~remounted
    /\ currentStep = "agreement"
    /\ \E i \in DOMAIN violations : violations[i].severity = "critical"
    /\ pc = "idle" /\ probes = 0 /\ ~batteryPromise
    /\ listeners = {} /\ liveTracks = {}
    /\ LET s == [mount(Cur) EXCEPT !.showSecureEnvironment = TRUE,
                                   !.exitSignals = 0, !.reports = <<>>,
                                   !.terminations = 0, !.releases = 0,
                                   !.remounted = TRUE]
       IN  Set([s EXCEPT !.rendered = Snapshot(s)])

\* disabled={isLoading || !systemChecks.camera || !systemChecks.networkStable}
\* of the render r
startExamDisabled(r) == r.isLoading \/ ~r.camera \/ ~r.networkStable

\* "Start Exam"
StartExam ==
    /\ Shows("verification")
    /\ ~startExamDisabled(rendered)
    /\ \E throws \in BOOLEAN :
          /\ ~throws \/ CanReport
          /\ Set(flush(startExam(Cur, throws)))

FullscreenChange ==
    /\ fullscreenElement /\ Attached("fullscreenchange") /\ CanReport
    /\ \E exits \in BOOLEAN :
          Set(handleFullscreenChange([Cur EXCEPT !.fullscreenElement = ~exits]))

VisibilityChange ==
    /\ Attached("visibilitychange") /\ CanReport
    /\ \E hidden \in BOOLEAN :
          Set(handleVisibilityChange(Cur, hidden))

Blur ==
    /\ Attached("blur") /\ CanReport
    /\ Set(handleBlur(Cur))

KeyDown ==
    /\ Attached("keydown") /\ CanReport
    /\ \E e \in KeyEvents : Set(handleKeyDown(Cur, e))

ContextMenu ==
    /\ Attached("contextmenu") /\ CanReport
    /\ Set(handleContextMenu(Cur))

MouseLeave ==
    /\ Attached("mouseleave") /\ CanReport
    /\ Set(handleMouseLeave(Cur))

\* navigator.onLine changes; it is read by finalChecks and by the two
\* listeners only, so it is not followed once the component is gone
Online ==
    /\ mounted /\ ~onLine
    /\ LET s == [Cur EXCEPT !.onLine = TRUE]
       IN  Set(IF Attached("online") THEN handleOnline(s) ELSE s)

Offline ==
    /\ mounted /\ onLine
    /\ Attached("offline") => CanReport
    /\ LET s == [Cur EXCEPT !.onLine = FALSE]
       IN  Set(IF Attached("offline") THEN handleOffline(s) ELSE s)

\* the 30s interval callback issues a probe
HeartbeatTick ==
    /\ heartbeatInterval /\ probes < MaxProbes
    /\ Set([Call(Cur, "fetch") EXCEPT !.probes = @ + 1])

ProbeSettles ==
    /\ probes > 0
    /\ \E ok \in BOOLEAN :
          /\ ok \/ CanReport
          /\ LET s == [Cur EXCEPT !.probes = @ - 1]
             IN  Set(IF ok THEN s ELSE heartbeatFailed(s))

\* getBattery() resolves: the listeners are added and the status read once
BatteryResolves ==
    /\ batteryPromise /\ CanReport
    /\ Set(updateBatteryStatus([Cur EXCEPT !.batteryPromise = FALSE,
                                           !.listeners = @ \cup BatteryEvents]))

\* chargingchange / levelchange, delivered to updateBatteryStatus (the battery
\* object is read nowhere else, so a change nobody listens to is not a step)
BatteryChange ==
    /\ Attached("levelchange") /\ CanReport
    /\ \E b \in [charging : BOOLEAN, level : Levels] :
          /\ b # battery
          /\ Set(updateBatteryStatus([Cur EXCEPT !.battery = b]))

Next ==
    \/ ToggleAgreement \/ CancelAndReturn \/ EnterSecureMode
    \/ CameraSettles \/ SetupTimerFires \/ FullscreenSettles \/ ScreenShareSettles
    \/ Commit \/ Unmount \/ StartExam
    \/ FullscreenChange \/ VisibilityChange \/ Blur \/ KeyDown \/ ContextMenu
    \/ MouseLeave \/ Online \/ Offline \/ HeartbeatTick \/ ProbeSettles
    \/ BatteryResolves \/ BatteryChange

Spec == Init /\ [][Next]_vars

\* One instance, and the instance that follows it after a failed setup
Reentry == Next \/ Remount

ReentrySpec == Init /\ [][Reentry]_vars

\* The component by itself: Spec, and root elements without an entry point
AnyBrowser == Next \/ SetupTimerFiresNoApi

NoApiSpec == Init /\ [][AnyBrowser]_vars

\* The continuation of a setup in flight runs: the pending browser request
\* settles or the one-second timer fires.  Under Next these are exactly the
\* steps CameraSettles, SetupTimerFires, FullscreenSettles and
\* ScreenShareSettles, one of which is enabled whenever pc is not idle.
SetupContinues ==
    /\ pc # "idle"
    /\ pc' \in CASE pc = "camera" -> {"wait1", "idle"}
                 [] pc = "wait1" -> {"fullscreen"}
                 [] pc = "fullscreen" -> {"wait2", "idle"}
                 [] pc = "wait2" -> {"screen"}
                 [] pc = "screen" -> {"idle"}

FairSpec == Spec /\ WF_pc(SetupContinues)

\* ------------------------------------------------------ MoreVerticalIcon

Modal == [open |-> open, currentOpenModal |-> currentOpenModal]

handleOpenWithoutClosing(m, i) ==
    [m EXCEPT !.currentOpenModal = i, !.open[i] = TRUE]

\* handleOpen of instance i: the stored closure closes the instance that
\* registered it, then this instance registers itself and opens.
handleOpen(m, i) ==
    LET m1 == IF m.currentOpenModal # NoModal
              THEN [m EXCEPT !.open[m.currentOpenModal] = FALSE] ELSE m
    IN  [m1 EXCEPT !.currentOpenModal = i, !.open[i] = TRUE]

\* handleClose of instance i
handleClose(m, i) == [m EXCEPT !.open[i] = FALSE, !.currentOpenModal = NoModal]

SetModal(m) ==
    /\ open' = m.open
    /\ currentOpenModal' = m.currentOpenModal
    /\ UNCHANGED <<monitorVars, examEnv, ongoing>>

\* click on the icon of instance i
OpenModal == \E i \in Icons : SetModal(handleOpen(Modal, i))

\* backdrop click, outside mousedown, Escape or one of the three buttons: all
\* exist only while instance i is open
CloseModal == \E i \in Icons : open[i] /\ SetModal(handleClose(Modal, i))

\* the grid destroys the cell renderer: its state is gone, the module-level
\* pointer is left as it is
DestroyCell == \E i \in Icons : SetModal([Modal EXCEPT !.open[i] = FALSE])

ModalNext == OpenModal \/ CloseModal \/ DestroyCell

ModalSpec == Init /\ [][ModalNext]_vars

\* ---------------------------------------------------------------- ExamEnv
\* The initialization of the housing page, up to the moment it shows the
\* component (ExamEnvSpec).  A handler is a function on the hook state of
\* ExamEnv; pc is the await its run is suspended at.

EnvCur ==
    [f \in DOMAIN examEnv \cup {"showSecureEnvironment"} |->
        IF f = "showSecureEnvironment" THEN showSecureEnvironment ELSE examEnv[f]]

\* everything of the component that showing it does not touch
hookVars == <<currentStep, isSecureMode, cameraStream, screenStream, violations,
              systemChecks, examStartTime, isLoading, agreementAccepted,
              heartbeatRef, srcObject, rendered, setupClosure, pc,
              liveTracks, fullscreenElement, heartbeatInterval, listeners,
              batteryPromise, probes, onLine, battery, hasBattery,
              exitSignals, reports, terminations, releases, calls, remounted>>

\* the component is rendered exactly while showSecureEnvironment is true
SetEnv(e) ==
    /\ examEnv' = [f \in DOMAIN examEnv |-> e[f]]
    /\ showSecureEnvironment' = e.showSecureEnvironment
    /\ mounted' = e.showSecureEnvironment
    /\ UNCHANGED <<hookVars, modalVars, ongoing>>

FetchFailedMessage == "Failed to load test information. Please try again."
NoTestIdMessage == "No test ID provided"

\* fetchTestData up to its await; `at` is the await of the calling run
fetchTestData(e, at) ==
    IF ~e.testId
    THEN [e EXCEPT !.error = NoTestIdMessage, !.initializationStep = "error"]
    ELSE [e EXCEPT !.isLoading = TRUE, !.pc = at]

\* fetchTestData after the fetch settled: a response that is not ok and a
\* rejection both end in the catch block, and nothing is rethrown
fetchSettled(e, ok) ==
    IF ok
    THEN [e EXCEPT !.testData = TRUE, !.isLoading = FALSE]
    ELSE [e EXCEPT !.error = FetchFailedMessage, !.initializationStep = "error",
                   !.isLoading = FALSE]

\* requestFullscreenCapability
requestFullscreenCapability(e) == FirstEntryPoint(e.exposed) # NULL

\* the return false paths of requestPermissions and its finally
permissionsDenied(e) ==
    [e EXCEPT !.initializationStep = "error", !.isLoading = FALSE, !.pc = "done"]

\* requestPermissions from the microphone result on, followed by the rest of
\* initializeExam
afterMicrophone(e, micGranted) ==
    IF ~micGranted \/ ~requestFullscreenCapability(e) \/ ~e.mediaDevices
    THEN permissionsDenied(e)
    ELSE [e EXCEPT !.permissionsGranted = TRUE, !.initializationStep = "ready",
                   !.isLoading = FALSE, !.pc = "done",
                   !.showSecureEnvironment = TRUE]

\* checkMicrophonePermission up to its await
checkMicrophonePermission(e) == [e EXCEPT !.pc = "microphoneQuery"]

\* requestPermissions from the camera result on: without the permission the
\* camera and microphone are requested once; navigator.mediaDevices missing
\* makes that call throw inside the try
afterCamera(e, cameraGranted) ==
    IF cameraGranted THEN checkMicrophonePermission(e)
    ELSE IF e.mediaDevices THEN [e EXCEPT !.pc = "cameraRequest"]
    ELSE permissionsDenied(e)

\* requestPermissions up to its first await (inside checkCameraPermission)
requestPermissions(e) ==
    [e EXCEPT !.isLoading = TRUE, !.initializationStep = "permissions",
              !.pc = "cameraQuery"]

\* initializeExam, run by the mount effect: fetchTestData returns at once
\* without a test id, and the run goes on to the permissions
initializeExam(e) ==
    IF ~e.testId THEN requestPermissions(fetchTestData(e, "fetch"))
    ELSE fetchTestData(e, "fetch")

\* handleRetry
handleRetry(e) ==
    fetchTestData([e EXCEPT !.error = "", !.initializationStep = "loading"],
                  "retryFetch")

\* outcomes of navigator.permissions.query: the state is granted, it is not,
\* or the query throws (permission name or API unknown to the browser)
QueryOutcomes == {"granted", "prompt", "throws"}

ExamEnvInit ==
    /\ Fresh
    /\ mounted = FALSE
    /\ showSecureEnvironment = FALSE
    /\ examEnv \in [testId : BOOLEAN, mediaDevices : BOOLEAN,
                     exposed : SUBSET {EntryPoints[i] : i \in 1..3},
                     permissionsGranted : {FALSE}, isLoading : {FALSE},
                     testData : {FALSE}, error : {""},
                     initializationStep : {"loading"}, pc : {"start"}]

\* the mount effect
InitializeExam ==
    /\ examEnv.pc = "start"
    /\ SetEnv(initializeExam(EnvCur))

\* the fetch of initializeExam settles; the run goes on to the permissions
FetchSettles ==
    /\ examEnv.pc = "fetch"
    /\ \E ok \in BOOLEAN : SetEnv(requestPermissions(fetchSettled(EnvCur, ok)))

\* checkCameraPermission: the query settles; when it throws the camera is
\* requested instead
CameraQuerySettles ==
    /\ examEnv.pc = "cameraQuery"
    /\ \E r \in QueryOutcomes :
          SetEnv(IF r = "throws" /\ examEnv.mediaDevices
                 THEN [EnvCur EXCEPT !.pc = "cameraFallback"]
                 ELSE afterCamera(EnvCur, r = "granted"))

CameraFallbackSettles ==
    /\ examEnv.pc = "cameraFallback"
    /\ \E granted \in BOOLEAN : SetEnv(afterCamera(EnvCur, granted))

\* getUserMedia({video, audio}) of requestPermissions settles
CameraRequestSettles ==
    /\ examEnv.pc = "cameraRequest"
    /\ \E granted \in BOOLEAN :
          SetEnv(IF granted THEN checkMicrophonePermission(EnvCur)
                 ELSE permissionsDenied(EnvCur))

MicrophoneQuerySettles ==
    /\ examEnv.pc = "microphoneQuery"
    /\ \E r \in QueryOutcomes :
          SetEnv(IF r = "throws" /\ examEnv.mediaDevices
                 THEN [EnvCur EXCEPT !.pc = "microphoneFallback"]
                 ELSE afterMicrophone(EnvCur, r = "granted"))

MicrophoneFallbackSettles ==
    /\ examEnv.pc = "microphoneFallback"
    /\ \E granted \in BOOLEAN : SetEnv(afterMicrophone(EnvCur, granted))

\* the error screen is what ExamEnv renders
ErrorScreen ==
    /\ ~showSecureEnvironment
    /\ ~(examEnv.initializationStep = "loading" \/ examEnv.isLoading)
    /\ (examEnv.initializationStep = "error" \/ examEnv.error # "")

\* "Retry"
Retry ==
    /\ ErrorScreen
    /\ SetEnv(handleRetry(EnvCur))

RetryFetchSettles ==
    /\ examEnv.pc = "retryFetch"
    /\ \E ok \in BOOLEAN :
          SetEnv([fetchSettled(EnvCur, ok) EXCEPT !.pc = "done"])

ExamEnvNext ==
    \/ InitializeExam \/ FetchSettles \/ CameraQuerySettles
    \/ CameraFallbackSettles \/ CameraRequestSettles \/ MicrophoneQuerySettles
    \/ MicrophoneFallbackSettles \/ Retry \/ RetryFetchSettles

ExamEnvSpec == ExamEnvInit /\ [][ExamEnvNext]_vars

\* ------------------------------------------------------------ OngoingExam
\* The exam page (OngoingSpec).  A handler is a function on the record
\* `ongoing`; an asynchronous run suspended at an await is an entry of
\* `pending` holding what its closure captured.

\* the messages withErrorHandling records (the text of the thrown error, which
\* it appends, is left out)
SaveFailedMessage == "Failed to save answer"
LoadFailedMessage == "Failed to load question"
InvalidResponseMessage == "Invalid response format from server"

Run(kind, at, answer, page, questionId) ==
    [kind |-> kind, at |-> at, answer |-> answer, page |-> page,
     questionId |-> questionId]

Remove(seq, i) == SubSeq(seq, 1, i - 1) \o SubSeq(seq, i + 1, Len(seq))

\* setExamState / setCurrentQuestion / setPaginationInfo: the update n of o
\* is dropped once the component has exited
setExamState(o, n) == IF o.exited THEN o ELSE n

\* loadQuestion(page) up to the await of GetQuestion
loadQuestion(o, page) ==
    [setExamState(o, [o EXCEPT !.isLoading = TRUE, !.error = NULL])
        EXCEPT !.pending = Append(@, Run("load", "load", "", page, page))]

\* loadQuestion after GetQuestion settled
loadSettled(o, r, outcome) ==
    CASE outcome = "ok" ->
            setExamState(o, [o EXCEPT
                !.currentQuestion = [loaded |-> TRUE, questionId |-> r.page,
                                     givenAnswer |-> o.saved[r.page]],
                !.hasNext = r.page < NumQuestions - 1,
                !.isLoading = FALSE, !.currentPage = r.page,
                !.selectedAnswer = o.saved[r.page], !.isInitialized = TRUE])
      [] outcome = "rejected" ->
            setExamState(o, [o EXCEPT !.error = LoadFailedMessage,
                                      !.isLoading = FALSE])
      [] outcome = "invalid" ->
            setExamState(o, [o EXCEPT !.error = InvalidResponseMessage,
                                      !.isLoading = FALSE])

\* saveCurrentAnswer of the run `kind` up to the await of UpdateAnswer; the
\* closure holds the answer, the page and the question of the click
saveCurrentAnswer(o, kind) ==
    [setExamState(o, [o EXCEPT !.isSubmitting = TRUE, !.error = NULL])
        EXCEPT !.pending = Append(@, Run(kind, "save", o.selectedAnswer,
                                         o.currentPage,
                                         o.currentQuestion.questionId))]

\* saveCurrentAnswer after UpdateAnswer settled: withErrorHandling records a
\* rejection, isSubmitting is reset either way
saveSettled(o, r, ok) ==
    LET o1 == IF ok THEN [o EXCEPT !.saved[r.questionId] = r.answer]
              ELSE setExamState(o, [o EXCEPT !.error = SaveFailedMessage,
                                             !.isLoading = FALSE])
        o2 == setExamState(o1, [o1 EXCEPT !.isSubmitting = FALSE])
    IN  IF ok /\ o2.currentQuestion.loaded
        THEN setExamState(o2, [o2 EXCEPT !.currentQuestion.givenAnswer = r.answer])
        ELSE o2

handleNextAfterSaveIgnoresResult(o, r, ok) ==
    loadQuestion(saveSettled(o, r, ok), r.page + 1)

\* handleNext after saveCurrentAnswer returned
handleNextAfterSave(o, r, ok) ==
    IF ok THEN loadQuestion(saveSettled(o, r, ok), r.page + 1)
    ELSE saveSettled(o, r, ok)

\* handleNext up to its first await
handleNext(o) ==
    IF ~o.hasNext \/ o.isLoading THEN o
    ELSE IF o.selectedAnswer # "" /\ o.currentQuestion.loaded
         THEN saveCurrentAnswer(o, "next")
         ELSE IF o.selectedAnswer # "" THEN o
              ELSE loadQuestion(o, o.currentPage + 1)

\* handleJumpToQuestion with a valid question number typed into the prompt
handleJumpToQuestion(o, targetPage) ==
    IF targetPage = o.currentPage THEN o
    ELSE IF o.selectedAnswer # "" /\ o.currentQuestion.loaded
         THEN [setExamState(o, [o EXCEPT !.isSubmitting = TRUE, !.error = NULL])
                  EXCEPT !.pending = Append(@, Run("jump", "save", o.selectedAnswer,
                                                   targetPage,
                                                   o.currentQuestion.questionId))]
         ELSE loadQuestion(o, targetPage)

\* handleJumpToQuestion after saveCurrentAnswer returned: the result is not
\* looked at
handleJumpAfterSave(o, r, ok) == loadQuestion(saveSettled(o, r, ok), r.page)

handlePrevious(o) ==
    IF ~(o.currentPage > 0) \/ o.isLoading \/ o.isSubmitting THEN o
    ELSE loadQuestion(o, o.currentPage - 1)

handleAnswerSelect(o, answer) ==
    IF o.isSubmitting \/ o.isLoading THEN o
    ELSE setExamState(o, [o EXCEPT !.selectedAnswer = answer, !.error = NULL])

\* handleSubmission from the call of MockSubmission to its await
MockSubmission(o) ==
    [o EXCEPT !.submissionRequests = @ + 1,
              !.pending = Append(@, Run("submit", "request", "", 0, 0))]

\* handleSubmission, confirmed in the dialog, up to its first await
handleSubmission(o) ==
    IF o.isSubmitting THEN o
    ELSE LET o1 == [setExamState(o, [o EXCEPT !.isSubmitting = TRUE])
                       EXCEPT !.submissions = @ + 1]
         IN  IF o.selectedAnswer # "" /\ o.currentQuestion.loaded
             THEN saveCurrentAnswer(o1, "submit")
             ELSE MockSubmission(o1)

\* handleSubmission after saveCurrentAnswer returned: the result is not
\* looked at
handleSubmissionAfterSave(o, r, ok) == MockSubmission(saveSettled(o, r, ok))

\* handleSubmission after MockSubmission settled: a rejection, or a response
\* without a body (toast.error(res.error) throws), leaves the handler; a
\* response with a body schedules the exit
submissionSettled(o, resolved) ==
    IF resolved
    THEN [o EXCEPT !.exitsScheduled = @ + 1,
                   !.pending = Append(@, Run("submit", "timer", "", 0, 0))]
    ELSE o

\* the 2s timer of handleSubmission: cleanupSecureMode(); onExitSecure()
exitTimer(o) == [o EXCEPT !.exitCalls = @ + 1, !.exited = TRUE]

\* handleRetry of OngoingExam ("Restart Exam")
restartExam(o) ==
    setExamState(o, [o EXCEPT !.isInitialized = FALSE, !.error = NULL])

\* which screen OngoingExam renders (currentQuestion.loaded: it is not null)
LoadingScreen(o) == o.isLoading /\ ~o.currentQuestion.loaded
ExamErrorScreen(o) == ~o.exited /\ ~LoadingScreen(o) /\ o.error # NULL
QuestionScreen(o) ==
    ~o.exited /\ ~LoadingScreen(o) /\ o.error = NULL /\ o.currentQuestion.loaded

SetOngoing(o) ==
    /\ ongoing' = o
    /\ UNCHANGED <<monitorVars, modalVars, examEnv>>

\* click on an option
AnswerSelect ==
    /\ QuestionScreen(ongoing)
    /\ \E a \in Options : SetOngoing(handleAnswerSelect(ongoing, a))

\* "Save & Next" / "Skip & Next"
NextQuestion ==
    /\ QuestionScreen(ongoing)
    /\ ~(~ongoing.hasNext \/ ongoing.isLoading \/ ongoing.isSubmitting)
    /\ SetOngoing(handleNext(ongoing))

\* "Previous"
PreviousQuestion ==
    /\ QuestionScreen(ongoing)
    /\ ~(~(ongoing.currentPage > 0) \/ ongoing.isLoading \/ ongoing.isSubmitting)
    /\ SetOngoing(handlePrevious(ongoing))

\* "Submit Answer", confirmed
SubmitExam ==
    /\ QuestionScreen(ongoing)
    /\ ~(ongoing.isSubmitting \/ ongoing.isLoading)
    /\ ongoing.submissions < MaxSubmissions
    /\ SetOngoing(handleSubmission(ongoing))

\* "Jump to Question"
JumpToQuestion ==
    /\ QuestionScreen(ongoing)
    /\ ~(ongoing.isLoading \/ ongoing.isSubmitting)
    /\ \E targetPage \in 0..(NumQuestions - 1) :
          SetOngoing(handleJumpToQuestion(ongoing, targetPage))

\* "Restart Exam"
RestartExam ==
    /\ ExamErrorScreen(ongoing)
    /\ SetOngoing(restartExam(ongoing))

\* "Retry Current Question"
RetryCurrentQuestion ==
    /\ ExamErrorScreen(ongoing)
    /\ SetOngoing(loadQuestion(ongoing, ongoing.currentPage))

\* UpdateAnswer settles
SaveSettles ==
    \E i \in DOMAIN ongoing.pending, ok \in BOOLEAN :
        /\ ongoing.pending[i].at = "save"
        /\ LET r == ongoing.pending[i]
               o == [ongoing EXCEPT !.pending = Remove(@, i)]
           IN  SetOngoing(CASE r.kind = "next" -> handleNextAfterSave(o, r, ok)
                            [] r.kind = "jump" -> handleJumpAfterSave(o, r, ok)
                            [] r.kind = "submit" -> handleSubmissionAfterSave(o, r, ok))

\* GetQuestion settles
LoadSettles ==
    \E i \in DOMAIN ongoing.pending, outcome \in {"ok", "rejected", "invalid"} :
        /\ ongoing.pending[i].at = "load"
        /\ SetOngoing(loadSettled([ongoing EXCEPT !.pending = Remove(@, i)],
                                  ongoing.pending[i], outcome))

\* MockSubmission settles
SubmissionSettles ==
    \E i \in DOMAIN ongoing.pending, resolved \in BOOLEAN :
        /\ ongoing.pending[i].at = "request"
        /\ SetOngoing(submissionSettled([ongoing EXCEPT !.pending = Remove(@, i)],
                                        resolved))

ExitTimerFires ==
    \E i \in DOMAIN ongoing.pending :
        /\ ongoing.pending[i].at = "timer"
        /\ SetOngoing(exitTimer([ongoing EXCEPT !.pending = Remove(@, i)]))

OngoingNext ==
    \/ AnswerSelect \/ NextQuestion \/ PreviousQuestion \/ JumpToQuestion
    \/ SubmitExam
    \/ RestartExam \/ RetryCurrentQuestion
    \/ SaveSettles \/ LoadSettles \/ SubmissionSettles \/ ExitTimerFires

\* OngoingExam reads neither the network nor the battery: one browser is
\* enough
OngoingInit == Init /\ onLine /\ ~hasBattery

OngoingSpec == OngoingInit /\ [][OngoingNext]_vars

TypeOK ==
    /\ Len(ongoing.pending) <= 2 * MaxSubmissions + 1
    /\ currentStep \in {"agreement", "setup", "verification", "exam"}
    /\ isSecureMode \in BOOLEAN
    /\ Len(violations) <= MaxReports
    /\ Len(reports) <= MaxReports
    /\ probes \in 0..MaxProbes
    /\ liveTracks \subseteq {CameraStreamId, ScreenStreamId}
    /\ pc \in {"idle", "camera", "wait1", "fullscreen", "wait2", "screen"}

\* ====================================================== claims

HasCritical(log) == \E i \in DOMAIN log : log[i].severity = "critical"
CriticalCount(log) == Cardinality({i \in DOMAIN log : log[i].severity = "critical"})
Last(log) == log[Len(log)]
Positions(c) == {i \in DOMAIN calls : calls[i] = c}
\* critical violations that only a secure-mode listener raises
SecureModeCriticals == {"fullscreen-exit", "tab-switch", "network-loss"}
\* violation types of the monitored signals
MonitoredTypes == {"fullscreen-exit", "tab-switch", "focus-loss", "blocked-key",
                   "context-menu", "mouse-leave", "network-loss",
                   "network-unstable", "battery-low"}

\* C1: in the mounted component termination has been invoked if and only if
\* a critical violation is in the log, and as long as the log holds only
\* warnings a phase of verification/exam keeps secure mode true.
C1_TerminationIffCritical ==
    mounted =>
        /\ (terminations > 0) <=> HasCritical(violations)
        /\ (~HasCritical(violations) /\ currentStep \in {"verification", "exam"})
               => isSecureMode

C1_Witness ==
    /\ mounted /\ terminations = 1 /\ Len(violations) = 2
    /\ violations[1].severity = "warning"
    /\ violations[2] = Violation("tab-switch", "critical")

\* C2: a handler that raises a critical violation invokes termination in the
\* same run, and every termination of that run comes after the append to the
\* log and after the report callback, in that order.
C2_TerminationAfterAppendAndReport ==
    ("onSecurityViolation" \in {calls[i] : i \in DOMAIN calls}
        /\ Last(reports).severity = "critical")
    => /\ Positions("handleSecurityTermination") # {}
       /\ \A k \in Positions("handleSecurityTermination") :
             \E i \in Positions("setViolations"), j \in Positions("onSecurityViolation") :
                i < j /\ j < k

C2_Witness ==
    /\ mounted /\ violations # <<>> /\ Last(violations).type = "tab-switch"
    /\ Positions("setViolations") = {1} /\ Positions("onSecurityViolation") = {2}
    /\ Positions("handleSecurityTermination") = {4}

\* C3: one critical violation raised by a secure-mode signal makes the exit
\* handler of the housing page run exactly once.
C3_ExactlyOneExitSignal ==
    (CriticalCount(reports) = 1 /\ Last(reports).type \in SecureModeCriticals)
        => exitSignals = 1

\* C4: after a termination triggered by a critical secure-mode signal no
\* track of the camera or screen-share stream is live, fullscreen is left
\* and the heartbeat interval is cleared.
C4_TerminationReleasesEverything ==
    (terminations > 0 /\ \E i \in DOMAIN reports : reports[i].type \in SecureModeCriticals)
        => (liveTracks = {} /\ ~fullscreenElement /\ ~heartbeatInterval)

\* C5: a termination invoked while an earlier one is still tearing the
\* component down performs no further release and emits no further exit
\* signal.
C5_TerminateIdempotent ==
    [][(mounted /\ terminations >= 1 /\ terminations' > terminations)
          => (releases' = releases /\ exitSignals' = exitSignals)]_vars

\* C6: when the camera request is denied during setup the phase goes from
\* setup to agreement and the log is exactly one critical camera-denied.
C6_CameraDenied ==
    [][(mounted /\ pc = "camera" /\ pc' = "idle")
          => /\ currentStep = "setup" /\ currentStep' = "agreement"
             /\ violations' = <<Violation("camera-denied", "critical")>>]_vars

C6_Witness ==
    /\ mounted /\ currentStep = "agreement" /\ pc = "idle"
    /\ violations = <<Violation("camera-denied", "critical")>>

\* C7: when camera and fullscreen were acquired and only the screen-share
\* request is denied, setup reaches verification in secure mode with a log of
\* exactly one warning screen-share-optional and without termination.
C7_ScreenShareOptional ==
    [][(mounted /\ pc = "screen" /\ pc' = "idle" /\ ScreenStreamId \notin liveTracks')
          => /\ currentStep' = "verification" /\ isSecureMode'
             /\ violations' = <<Violation("screen-share-optional", "warning")>>
             /\ terminations' = 0]_vars

\* C8: when fullscreen is denied after the camera was acquired, a critical
\* fullscreen-denied is recorded and, once the phase is back at agreement,
\* the camera stream's tracks are stopped.
C8_FullscreenDeniedReleasesCamera ==
    [][(mounted /\ pc = "fullscreen" /\ pc' = "idle")
          => /\ Violation("fullscreen-denied", "critical")
                    \in {violations'[i] : i \in DOMAIN violations'}
             /\ currentStep' = "agreement"
             /\ CameraStreamId \notin liveTracks']_vars

\* C9: after teardown no monitored signal records a violation or reaches the
\* violation-report callback.
C9_NoSignalAfterTeardown ==
    [][~mounted =>
          /\ violations' = violations
          /\ Len(reports') > Len(reports) => Last(reports').type \notin MonitoredTypes]_vars

\* C10: while the rendered phase is agreement or setup no listener is
\* attached and no heartbeat runs, and listeners and the heartbeat exist only
\* while the component is in secure mode.
C10_ListenersOnlyInSecureMode ==
    /\ (mounted /\ rendered.currentStep \in {"agreement", "setup"})
           => (listeners = {} /\ ~heartbeatInterval)
    /\ (listeners # {} \/ heartbeatInterval) => (mounted /\ rendered.isSecureMode)

C12_SetupNeedsAgreement ==
    [][/\ (Shows("agreement") /\ ~rendered.agreementAccepted)
              => startSecureSetup(Cur) = Cur
       /\ (currentStep = "agreement" /\ currentStep' = "setup")
              => (agreementAccepted /\ rendered.agreementAccepted)]_vars

C12_Witness ==
    /\ mounted /\ currentStep = "setup" /\ pc = "camera" /\ isLoading
    /\ agreementAccepted /\ calls = <<"getUserMedia">>

\* C13: every change of phase of a component instance is agreement->setup,
\* setup->verification, setup->agreement or verification->exam.
PhaseChanges ==
    {<<"agreement", "setup">>, <<"setup", "verification">>,
     <<"setup", "agreement">>, <<"verification", "exam">>}

C13_PhaseChanges ==
    [][(mounted /\ currentStep' # currentStep)
          => <<currentStep, currentStep'>> \in PhaseChanges]_vars

C13_Witness ==
    /\ mounted /\ currentStep = "agreement" /\ releases > 0
    /\ HasCritical(violations) /\ "alert" \in {calls[i] : i \in DOMAIN calls}

\* C14: in every state of the mounted component isSecureMode is true if and
\* only if the phase is verification or exam.
C14_SecureModeIffVerificationOrExam ==
    mounted => (isSecureMode <=> currentStep \in {"verification", "exam"})

\* C15: the violation log of a component instance only grows, by one entry
\* at its end at a time, and as long as the component is mounted the report
\* callback has been invoked once per entry, in log order, with that entry's
\* description and severity.
IsPrefix(a, b) == Len(a) <= Len(b) /\ SubSeq(b, 1, Len(a)) = a
NewInstance == ~mounted /\ mounted'

C15_LogAppendOnlyAndReported ==
    [][/\ ~NewInstance => IsPrefix(violations, violations')
       /\ ~NewInstance => Len(violations') <= Len(violations) + 1
       /\ mounted' => reports' = violations'
       /\ (mounted' /\ Len(violations') = Len(violations) + 1) =>
             /\ reports' = Append(reports, Last(violations'))
             /\ Cardinality(Positions("onSecurityViolation")') = 1]_vars

C15_Witness ==
    /\ mounted /\ Len(violations) = 2 /\ reports = violations
    /\ violations[1].type # violations[2].type
    /\ Positions("onSecurityViolation") = {2}

\* C16: after a handler that released the session, once or twice in a row,
\* every system-check flag is false.
C16_ReleaseLeavesChecksFalse ==
    (mounted /\ Positions("cleanupSecureMode") # {}) => systemChecks = InitialChecks

\* C17: the unmount step stops every live track, leaves fullscreen, clears
\* the heartbeat and removes every listener.
C17_UnmountReleasesEverything ==
    [][(mounted /\ ~mounted') =>
          /\ liveTracks' = {}
          /\ ~fullscreenElement'
          /\ ~heartbeatInterval'
          /\ listeners' = {}]_vars

\* C18: a heartbeat probe that fails reports a network-unstable warning,
\* appends it to the log of the mounted component, and never terminates: the
\* termination count, isSecureMode and the phase are the same after the step.
ProbeFailed == probes' = probes - 1 /\ reports' # reports

C18_HeartbeatFailureOnlyWarns ==
    [][ProbeFailed =>
          /\ reports' = Append(reports, Violation("network-unstable", "warning"))
          /\ mounted => violations' = Append(violations,
                                             Violation("network-unstable", "warning"))
          /\ terminations' = terminations /\ exitSignals' = exitSignals
          /\ releases' = releases
          /\ isSecureMode' = isSecureMode /\ currentStep' = currentStep
          /\ mounted' = mounted /\ showSecureEnvironment' = showSecureEnvironment
          /\ listeners' = listeners /\ heartbeatInterval' = heartbeatInterval]_vars

C18_Witness ==
    /\ mounted /\ isSecureMode /\ terminations = 0 /\ heartbeatInterval
    /\ violations = <<Violation("network-unstable", "warning"),
                      Violation("network-unstable", "warning")>>
    /\ calls = <<"setViolations", "onSecurityViolation">>

\* C19: while the battery stays below the threshold and unplugged, a further
\* battery event appends no further battery-low warning.
BatteryLow(b) == ~b.charging /\ b.level < LowBatteryPercent

C19_BatteryLowOncePerTransition ==
    [][(mounted /\ BatteryLow(battery) /\ BatteryLow(battery') /\ battery' # battery
          /\ violations # <<>> /\ Last(violations).type = "battery-low")
       => violations' = violations]_vars

\* C20: with the network listeners attached (secure mode committed), going
\* offline sets networkStable false and appends and reports a critical
\* network-loss; going online sets networkStable true and changes no other
\* flag, nor the log, the reports, the phase, isSecureMode or the
\* termination count.
OfflineSignal == mounted /\ Attached("offline") /\ onLine /\ ~onLine'
OnlineSignal == mounted /\ Attached("online") /\ ~onLine /\ onLine'

C20_OfflineCriticalOnlineSilent ==
    [][/\ OfflineSignal =>
             /\ systemChecks' = [systemChecks EXCEPT !.networkStable = FALSE]
             /\ violations' = Append(violations, Violation("network-loss", "critical"))
             /\ reports' = Append(reports, Violation("network-loss", "critical"))
             /\ terminations' = terminations + 1
       /\ OnlineSignal =>
             /\ systemChecks' = [systemChecks EXCEPT !.networkStable = TRUE]
             /\ violations' = violations /\ reports' = reports
             /\ currentStep' = currentStep /\ isSecureMode' = isSecureMode
             /\ terminations' = terminations /\ releases' = releases
             /\ showSecureEnvironment' = showSecureEnvironment]_vars

C20_Witness ==
    /\ mounted /\ Attached("online") /\ onLine /\ isSecureMode
    /\ systemChecks.networkStable /\ ~rendered.networkStable
    /\ violations = <<>> /\ calls = <<>>

\* C21: in every state with the secure-mode listeners attached each
\* monitored signal reports and logs the (type, severity) pair of the table,
\* and a fullscreenchange with fullscreen still engaged or a visibilitychange
\* with the document visible records nothing.
Records(s, type, severity) ==
    /\ s.reports = Append(reports, Violation(type, severity))
    /\ s.violations = Append(violations, Violation(type, severity))

C21_SignalClassification ==
    (mounted /\ Attached("blur") /\ CanReport) =>
        /\ Records(handleFullscreenChange([Cur EXCEPT !.fullscreenElement = FALSE]),
                   "fullscreen-exit", "critical")
        /\ handleFullscreenChange([Cur EXCEPT !.fullscreenElement = TRUE])
              = [Cur EXCEPT !.fullscreenElement = TRUE]
        /\ Records(handleVisibilityChange(Cur, TRUE), "tab-switch", "critical")
        /\ handleVisibilityChange(Cur, FALSE) = Cur
        /\ Records(handleBlur(Cur), "focus-loss", "warning")
        /\ Records(handleKeyDown(Cur, [key |-> "F12", ctrlKey |-> FALSE,
                                       shiftKey |-> FALSE, altKey |-> FALSE]),
                   "blocked-key", "warning")
        /\ Records(handleContextMenu(Cur), "context-menu", "warning")
        /\ Records(handleMouseLeave(Cur), "mouse-leave", "warning")
        /\ Records(handleOffline(Cur), "network-loss", "critical")
        /\ Records(heartbeatFailed(Cur), "network-unstable", "warning")
        /\ \A b \in [charging : BOOLEAN, level : Levels] :
              BatteryLow(b) =>
                  Records(updateBatteryStatus([Cur EXCEPT !.battery = b]),
                          "battery-low", "warning")

C21_Witness ==
    /\ mounted /\ terminations = 1
    /\ violations = <<Violation("focus-loss", "warning"),
                      Violation("network-loss", "critical")>>
    /\ reports = violations

\* C22 as stated: a keydown in secure mode records exactly one blocked-key
\* warning and cancels the default action if the bare key is one of F11, F12,
\* Escape, PrintScreen, Insert, Delete, Meta or the composed string is one of
\* Ctrl+Shift+I, Ctrl+Shift+J, Ctrl+U; otherwise it records nothing and
\* suppresses nothing.
BareBlocked == {"F11", "F12", "Escape", "PrintScreen", "Insert", "Delete", "Meta"}
StatedCombos == {"Ctrl+Shift+I", "Ctrl+Shift+J", "Ctrl+U"}

KeyDownAgrees(e, blocked) ==
    LET r == handleKeyDown(Cur, e)
    IN  IF blocked
        THEN /\ r.violations = Append(violations, Violation("blocked-key", "warning"))
             /\ r.reports = Append(reports, Violation("blocked-key", "warning"))
             /\ Cardinality({i \in DOMAIN r.calls : r.calls[i] = "preventDefault"}) = 1
        ELSE r = Cur

C22_AsStated ==
    (mounted /\ Attached("keydown") /\ CanReport) =>
        \A e \in KeyEvents :
            KeyDownAgrees(e, e.key \in BareBlocked \/ Combo(e) \in StatedCombos)

\* C22: the same with Alt+Tab among the blocked composed strings; the
\* composed string is compared as written, so Ctrl with key "u" is not
\* Ctrl+U.
CodeCombos == StatedCombos \cup {"Alt+Tab"}

C22_BlockedKeys ==
    (mounted /\ Attached("keydown") /\ CanReport) =>
        \A e \in KeyEvents :
            KeyDownAgrees(e, e.key \in BareBlocked \/ Combo(e) \in CodeCombos)

C22_Witness ==
    /\ mounted /\ Attached("keydown") /\ terminations = 0
    /\ violations = <<Violation("blocked-key", "warning")>>
    /\ calls = <<"preventDefault", "setViolations", "onSecurityViolation">>

\* C23: whenever the verification screen is shown with the camera check
\* true, the source of the preview element is the acquired camera stream.
C23_PreviewShowsCamera ==
    (Shows("verification") /\ rendered.camera) => srcObject = CameraStreamId

\* C24: a setup of the mounted component is in flight exactly as long as
\* the phase is setup, and if every request settles it ends in verification
\* or agreement with isLoading false (unless the component is unmounted
\* first).
SetupInFlight == pc # "idle"

C24_SetupEnds ==
    /\ [](mounted => (currentStep = "setup" <=> SetupInFlight))
    /\ (mounted /\ currentStep = "setup")
          ~> (~mounted \/ (currentStep \in {"verification", "agreement"}
                           /\ ~isLoading /\ ~SetupInFlight))

C24_Witness ==
    /\ mounted /\ currentStep = "agreement" /\ ~isLoading /\ ~SetupInFlight
    /\ violations = <<Violation("fullscreen-denied", "critical")>>

\* C25: every entry into the setup phase starts from all system-check flags
\* false and an empty violation log and leaves them so, and a new instance
\* of the component starts in agreement with the flags false and the log
\* empty, also after an earlier instance failed its setup.
EntersSetup == currentStep # "setup" /\ currentStep' = "setup"

C26_StartGateIgnoresBattery ==
    mounted =>
        \A b \in BOOLEAN :
            startExamDisabled(Snapshot([Cur EXCEPT !.systemChecks.batteryLevel = b]))
                = startExamDisabled(Snapshot(Cur))

C26_Witness ==
    /\ ~hasBattery /\ mounted /\ currentStep = "exam"
    /\ ~systemChecks.batteryLevel /\ examStartTime # NULL
    /\ "onStartExam" \in {calls[i] : i \in DOMAIN calls}

\* C27: at most one MoreVerticalIcon instance is open in every state, and
\* after a step that opens an instance every other instance is closed.
OpenIcons == {i \in Icons : open[i]}

C27_SingleOpenModal ==
    [][/\ Cardinality(OpenIcons) <= 1
       /\ Cardinality(OpenIcons') <= 1
       /\ \A i \in Icons :
             (currentOpenModal' = i /\ open'[i] /\ OpenIcons # {} /\ OpenIcons # {i})
                 => (OpenIcons' = {i} /\ \A j \in OpenIcons : ~open'[j])]_vars

C27_Witness ==
    /\ OpenIcons = {2} /\ currentOpenModal = 2

\* C28: a step that reports a focus-loss, blocked-key, context-menu,
\* mouse-leave or network-unstable warning appends it to the log of the
\* mounted component and leaves the phase, the secure-mode flag, every
\* system-check flag, the held streams and their tracks, the fullscreen state
\* and the heartbeat timer as they were; it neither terminates nor releases.
FrameWarnings == {"focus-loss", "blocked-key", "context-menu", "mouse-leave",
                  "network-unstable"}

ReportsFrameWarning ==
    /\ reports' # reports /\ reports' # <<>>
    /\ Last(reports').type \in FrameWarnings

C28_WarningsOnlyLog ==
    [][ReportsFrameWarning =>
          /\ reports' = Append(reports, Last(reports'))
          /\ Last(reports').severity = "warning"
          /\ mounted => violations' = Append(violations, Last(reports'))
          /\ currentStep' = currentStep /\ isSecureMode' = isSecureMode
          /\ systemChecks' = systemChecks
          /\ cameraStream' = cameraStream /\ screenStream' = screenStream
          /\ liveTracks' = liveTracks /\ fullscreenElement' = fullscreenElement
          /\ heartbeatInterval' = heartbeatInterval /\ heartbeatRef' = heartbeatRef
          /\ terminations' = terminations /\ releases' = releases
          /\ exitSignals' = exitSignals /\ listeners' = listeners]_vars

C28_Witness ==
    /\ mounted /\ isSecureMode /\ currentStep = "exam" /\ terminations = 0
    /\ violations = <<Violation("context-menu", "warning")>>
    /\ calls = <<"preventDefault", "setViolations", "onSecurityViolation">>
    /\ heartbeatInterval /\ fullscreenElement
    /\ liveTracks = {CameraStreamId, ScreenStreamId}

\* C29: from every state with the listeners attached, two warning signals
\* handled in one order and in the other give the same phase, secure-mode
\* flag and system checks and logs that hold the same violations the same
\* number of times.
WarningSignals == {"blur", "keydown", "contextmenu", "mouseleave",
                   "heartbeat", "battery"}

Deliver(s, sig) ==
    CASE sig = "blur" -> handleBlur(s)
      [] sig = "keydown" -> handleKeyDown(s, [key |-> "U", ctrlKey |-> TRUE,
                                              shiftKey |-> FALSE, altKey |-> FALSE])
      [] sig = "contextmenu" -> handleContextMenu(s)
      [] sig = "mouseleave" -> handleMouseLeave(s)
      [] sig = "heartbeat" -> heartbeatFailed(s)
      [] sig = "battery" -> updateBatteryStatus(s)

Count(log, v) == Cardinality({i \in DOMAIN log : log[i] = v})

SameBag(a, b) ==
    /\ Len(a) = Len(b)
    /\ \A i \in DOMAIN a : Count(a, a[i]) = Count(b, a[i])

C29_WarningsCommute ==
    (mounted /\ Attached("blur") /\ Len(reports) + 2 <= MaxReports) =>
        \A a, b \in WarningSignals :
            LET ab == Deliver(Deliver(Cur, a), b)
                ba == Deliver(Deliver(Cur, b), a)
            IN  /\ ab.currentStep = ba.currentStep
                /\ ab.isSecureMode = ba.isSecureMode
                /\ ab.systemChecks = ba.systemChecks
                /\ SameBag(ab.violations, ba.violations)
                /\ SameBag(ab.reports, ba.reports)
                /\ ab.terminations = ba.terminations

C29_Witness ==
    /\ mounted /\ isSecureMode /\ terminations = 0
    /\ violations = <<Violation("focus-loss", "warning"),
                      Violation("blocked-key", "warning")>>

\* C30: the camera is requested from idle; fullscreen is requested only
\* after the camera request succeeded and its pause elapsed; screen share
\* only after the fullscreen request succeeded as well; a denied camera or
\* fullscreen request ends the setup, so nothing is requested after it.
Reported(type) == \E i \in DOMAIN reports : reports[i].type = type

C30_AcquisitionOrder ==
    [][/\ (pc' = "camera" /\ pc # "camera") => pc = "idle"
       /\ (pc' = "wait1" /\ pc # "wait1") =>
             (pc = "camera" /\ CameraStreamId \in liveTracks')
       /\ (pc' = "fullscreen" /\ pc # "fullscreen") =>
             /\ pc = "wait1" /\ CameraStreamId \in liveTracks
             /\ ~Reported("camera-denied")
       /\ (pc' = "wait2" /\ pc # "wait2") =>
             (pc = "fullscreen" /\ fullscreenElement')
       /\ (pc' = "screen" /\ pc # "screen") =>
             /\ pc = "wait2" /\ CameraStreamId \in liveTracks
             /\ ~Reported("camera-denied") /\ ~Reported("fullscreen-denied")
       /\ (pc # "idle" /\ ~Reported("camera-denied") /\ Reported("camera-denied")')
             => (pc = "camera" /\ pc' = "idle")
       /\ (pc # "idle" /\ ~Reported("fullscreen-denied") /\ Reported("fullscreen-denied")')
             => (pc = "fullscreen" /\ pc' = "idle")]_vars

C30_Witness ==
    /\ mounted /\ pc = "screen" /\ currentStep = "setup"
    /\ systemChecks.camera /\ systemChecks.fullscreen /\ fullscreenElement
    /\ liveTracks = {CameraStreamId} /\ reports = <<>>

\* C31: the setup waits for a fullscreen request only after an entry point
\* of the root element was invoked, and the fullscreen check becomes true
\* only in the step in which that request resolves (the document is in
\* fullscreen afterwards); in particular not when the element exposes none
\* of the entry points.
EntryPointInvoked == \E i \in DOMAIN calls : calls[i] \in {EntryPoints[k] : k \in 1..3}

C31_FullscreenCheckNeedsEntryPoint ==
    [][/\ (pc # "fullscreen" /\ pc' = "fullscreen") => EntryPointInvoked'
       /\ (mounted /\ ~systemChecks.fullscreen /\ systemChecks.fullscreen')
             => (pc = "fullscreen" /\ fullscreenElement')]_vars

\* C32: in a mounted component in which termination has been invoked secure
\* mode is off (termination's cleanup switched it off and nothing switches it
\* on again), and the phase does not move to verification in or after a run
\* that invoked termination.
C32_NoSecureModeAfterTermination ==
    [][(mounted' /\ terminations' > 0)
          => /\ ~isSecureMode'
             /\ (currentStep # "verification" => currentStep' # "verification")]_vars

\* C33: once secure mode has been left (the component is unmounted, or its
\* secure-mode flag is off again), a heartbeat probe or the getBattery()
\* promise that settles changes neither the violation log nor the reports,
\* and attaches no listener.
SecureModeLeft == ~mounted \/ ~isSecureMode
LateCompletion == probes' < probes \/ (batteryPromise /\ ~batteryPromise')

C33_LateCompletionsIgnored ==
    [][(SecureModeLeft /\ LateCompletion)
          => /\ violations' = violations /\ reports' = reports
             /\ listeners' \subseteq listeners]_vars

\* C34: after a battery update delivered to the mounted component (the
\* getBattery() promise resolves, or the battery's charging state or level
\* changes) the batteryLevel check is false exactly when the battery is not
\* charging and below the threshold.
BatteryUpdate == battery' # battery \/ (batteryPromise /\ ~batteryPromise')

C34_BatteryFlagIffNotLow ==
    [][(mounted /\ BatteryUpdate)
          => (~systemChecks.batteryLevel' <=> BatteryLow(battery'))]_vars

\* C35: while a setup of the mounted component is in flight, isLoading is
\* true and the render on screen offers no usable Enter Secure Mode button;
\* no step starts a new acquisition sequence (no camera request), and the
\* sequence in flight only moves forward, one request or pause at a time, so
\* that each resource is requested at most once.
SetupProgress == {<<"camera", "wait1">>, <<"wait1", "fullscreen">>,
                  <<"fullscreen", "wait2">>, <<"wait2", "screen">>}

C35_SingleSetupInFlight ==
    [][(mounted /\ SetupInFlight)
          => /\ isLoading
             /\ ~(Shows("agreement") /\ rendered.agreementAccepted
                                      /\ ~rendered.isLoading)
             /\ \A i \in DOMAIN calls' : calls'[i] # "getUserMedia"
             /\ (pc' # pc /\ pc' # "idle") => <<pc, pc'>> \in SetupProgress]_vars

C35_Witness ==
    /\ mounted /\ pc = "fullscreen" /\ isLoading
    /\ Shows("setup") /\ rendered.agreementAccepted /\ rendered.isLoading
    /\ liveTracks = {CameraStreamId}

\* C36: ExamEnv shows the secure environment only at the end of an
\* initialization whose test-data fetch succeeded (the test is loaded and no
\* error is recorded) and whose requestPermissions returned true.
C36_ShownOnlyAfterFullInit ==
    [][(~showSecureEnvironment /\ showSecureEnvironment')
          => /\ examEnv'.testData /\ examEnv'.error = ""
             /\ examEnv'.permissionsGranted]_vars


\* ---- C37
NextSaveInFlight(o) ==
    \E i \in DOMAIN o.pending : o.pending[i].kind = "next" /\ o.pending[i].at = "save"

LoadInFlight(o, page) ==
    \E i \in DOMAIN o.pending : o.pending[i].at = "load" /\ o.pending[i].page = page

NextSaveSettled == NextSaveInFlight(ongoing) /\ ~NextSaveInFlight(ongoing')

\* C37: handleNext with a selected answer loads no question while its save is
\* in flight; when the save has settled, either the answer is stored, no
\* error is shown and the load of page + 1 is started, or the save failed:
\* no load is started, currentPage is unchanged, the error is recorded and
\* isSubmitting is false again.
C37_NextLoadsOnlyAfterSave ==
    [][/\ NextSaveInFlight(ongoing') =>
            \A p \in 0..NumQuestions : ~LoadInFlight(ongoing', p)
       /\ (NextSaveSettled /\ ~ongoing.exited) =>
            \/ /\ LoadInFlight(ongoing', ongoing.currentPage + 1)
               /\ ongoing'.error = NULL
               /\ ongoing'.saved[ongoing.currentQuestion.questionId]
                     = ongoing.selectedAnswer
               /\ ongoing'.saved # ongoing.saved
                     \/ ongoing.saved[ongoing.currentQuestion.questionId]
                           = ongoing.selectedAnswer
            \/ /\ \A p \in 0..NumQuestions : ~LoadInFlight(ongoing', p)
               /\ ongoing'.saved = ongoing.saved
               /\ ongoing'.currentPage = ongoing.currentPage
               /\ ongoing'.error = SaveFailedMessage
               /\ ~ongoing'.isSubmitting]_vars

\* the save of a Next click failed: the error screen, still on the page of the
\* click, the answer not stored, nothing loading
C37_Witness ==
    /\ ExamErrorScreen(ongoing)
    /\ ongoing.error = SaveFailedMessage
    /\ ongoing.currentPage = 0
    /\ ongoing.selectedAnswer = "A"
    /\ ongoing.saved[0] = ""
    /\ ~ongoing.isSubmitting
    /\ ongoing.pending = <<>>
    /\ ongoing.submissions = 0

\* ---- C38
SubmissionInFlight(o) ==
    \E i \in DOMAIN o.pending : o.pending[i].kind = "submit"

\* C38: a session submits at most once: while a submission is in progress
\* isSubmitting is true (the Submit button is disabled and handleSubmission
\* returns early), the submission request is issued at most once, and the
\* cleanupSecureMode / onExitSecure timer is scheduled at most once.
C38_SubmissionAtMostOnce ==
    /\ (SubmissionInFlight(ongoing) /\ ~ongoing.exited) => ongoing.isSubmitting
    /\ ongoing.submissionRequests <= 1
    /\ ongoing.exitsScheduled <= 1

====
